---- MODULE Spec2Model ----
(***************************************************************************)
(* Model of igush-rs: Igush<T>, a segmented array kept in one backing Vec  *)
(* partitioned into rows of row_width elements, each row a ring buffer     *)
(* whose logical column 0 sits at physical offset splits[row].             *)
(*                                                                         *)
(* Indices are 0-based as in the source; a TLA+ sequence s holds the       *)
(* element of Rust index i at s[i + 1].  Option<T> is a sequence of        *)
(* length 0 (None) or 1 (Some).                                            *)
(***************************************************************************)
EXTENDS Integers, Sequences, FiniteSets, TLC

\* ---------------------------------------------------------------- bounds
MaxWidth == 3
MaxLen == 4
MaxVal == 2
MaxItems == 2
MaxFromLen == 1090
MaxRowsLen == 5
MaxUtilLen == 12

\* ------------------------------------------------------- program constants
DEFAULT_WIDTH == 32

Vals == 1..MaxVal

VARIABLES
    backing,            \* Igush::backing : Vec<T>
    splits,             \* Igush::splits : Vec<usize>
    row_width,          \* Igush::row_width
    status,             \* "ok", "panic" (unwinding), "debug_assert" (unwinding from
                        \* the failed assertion "removed row was not contiguous"),
                        \* "hang" (a loop that never ends), or "none" before
                        \* construction
    debug_assertions,   \* the build: cfg!(debug_assertions)
    op,                 \* the last public operation called
    args,               \* its arguments
    ret,                \* what it returned (Option / Vec as a sequence)
    differential,       \* the differential test: "running", or "stopped" after a mismatch
    reference,          \* the same calls applied to a plain sequence
    ref_ret,            \* what the reference returned
    ref_status          \* "ok", or "panic" where the reference rejects the call too

vars == <<backing, splits, row_width, status, debug_assertions, op, args, ret,
          differential, reference, ref_ret, ref_status>>

\* ------------------------------------------------------ Vec / slice helpers
Min(a, b) == IF a <= b THEN a ELSE b
Max(a, b) == IF a >= b THEN a ELSE b

\* Vec::insert(index, element), index <= len
vec_insert(v, index, element) ==
    SubSeq(v, 1, index) \o <<element>> \o SubSeq(v, index + 1, Len(v))

\* Vec::remove(index), index < len: the vector without that element
vec_remove(v, index) ==
    SubSeq(v, 1, index) \o SubSeq(v, index + 2, Len(v))

\* [T]::rotate_left(mid), mid <= len
rotate_left(s, mid) ==
    [j \in 1..Len(s) |-> s[((j - 1 + mid) % Len(s)) + 1]]

\* [T]::rotate_right(k), k <= len
rotate_right(s, k) ==
    [j \in 1..Len(s) |-> s[((j - 1 + Len(s) - k) % Len(s)) + 1]]

\* v with the slice v[lo..hi] (hi exclusive) replaced by s
splice(v, lo, hi, s) ==
    SubSeq(v, 1, lo) \o s \o SubSeq(v, hi + 1, Len(v))

\* usize::integer_sqrt
RECURSIVE integer_sqrt_from(_, _)
integer_sqrt_from(n, r) ==
    IF (r + 1) * (r + 1) > n THEN r ELSE integer_sqrt_from(n, r + 1)

integer_sqrt(n) == integer_sqrt_from(n, 0)

\* slice::sort_unstable on integers: insertion into a sorted prefix
RECURSIVE sort_insert(_, _)
sort_insert(sorted, x) ==
    IF sorted = <<>> THEN <<x>>
    ELSE IF x <= Head(sorted) THEN <<x>> \o sorted
    ELSE <<Head(sorted)>> \o sort_insert(Tail(sorted), x)

RECURSIVE sort_unstable_vec(_)
sort_unstable_vec(v) ==
    IF v = <<>> THEN <<>>
    ELSE sort_insert(sort_unstable_vec(Tail(v)), Head(v))

\* ------------------------------------------------------------------ util.rs
div_rem(dividend, divisor) ==
    [quo |-> dividend \div divisor, rem |-> dividend % divisor]

\* wrap_add without the backward wrap: split - other_abs whatever split is
wrap_add_without_wrap(length, split, other) ==
    LET other_abs == IF other < 0 THEN -other ELSE other IN
    IF other < 0 THEN split - other_abs ELSE (split + other_abs) % length

\* a negative value stands for the usize subtraction underflowing
wrap_add(length, split, other) ==
    LET other_abs == IF other < 0 THEN -other ELSE other IN
    IF other < 0
    THEN IF other_abs > split
         THEN (split + length) - other_abs
         ELSE split - other_abs
    ELSE (split + other_abs) % length

\* util::make_contiguous always rotating left by the head length
util_make_contiguous_always_left(slice, split) ==
    IF (debug_assertions /\ split = 0) \/ split > Len(slice)
    THEN [ok |-> FALSE, slice |-> slice, by |-> 0]
    ELSE [ok |-> TRUE, slice |-> rotate_left(slice, split), by |-> split]

\* util::make_contiguous(slice, split): [ok, slice, by], by the number of
\* positions it rotates by.  ok = FALSE is a panic:
\* the debug assertion on split = 0, or slice.len() - split underflowing (an
\* overflow panic in a debug build; in a release build the wrapped tail_len is
\* larger than head_len and rotate_left(head_len) panics on mid > len).
util_make_contiguous(slice, split) ==
    IF (debug_assertions /\ split = 0) \/ split > Len(slice)
    THEN [ok |-> FALSE, slice |-> slice, by |-> 0]
    ELSE LET head_len == split
             tail_len == Len(slice) - split
         IN IF tail_len <= head_len
            THEN [ok |-> TRUE, slice |-> rotate_right(slice, tail_len), by |-> tail_len]
            ELSE [ok |-> TRUE, slice |-> rotate_left(slice, head_len), by |-> head_len]

\* ------------------------------------------------------------------- Igush
Igush(b, s, w) ==
    [backing |-> b, splits |-> s, row_width |-> w, status |-> "ok"]

Panic(self) == [self EXCEPT !.status = "panic"]
Hang(self) == [self EXCEPT !.status = "hang"]

\* the panic of debug_assert_eq!(.., Some(0), "removed row was not contiguous")
RemovedRowNotContiguous(self) == [self EXCEPT !.status = "debug_assert"]

\* new / with_capacity: assert!(row_width > 0), then an empty backing Vec and
\* splits = [0]; with_capacity only reserves room (capacity elements,
\* capacity / row_width + 1 markers).  No container exists after the panic.
new(w) ==
    IF ~(w > 0) THEN Panic(Igush(<<>>, <<>>, w)) ELSE Igush(<<>>, <<0>>, w)

\* with_capacity creating one marker for every row it reserves room for
with_capacity_presizes_splits(w, capacity) ==
    IF ~(w > 0) THEN Panic(Igush(<<>>, <<>>, w))
    ELSE Igush(<<>>, [i \in 1..((capacity \div w) + 1) |-> 0], w)

with_capacity(w, capacity) ==
    IF ~(w > 0) THEN Panic(Igush(<<>>, <<>>, w))
    ELSE LET rows == (capacity \div w) + 1 IN Igush(<<>>, <<0>>, w)

len(self) == Len(self.backing)

is_empty(self) == len(self) = 0

back_row(self) == len(self) \div self.row_width

last_row(self) ==
    IF is_empty(self) THEN <<>>
    ELSE LET d == div_rem(len(self), self.row_width)
         IN IF d.rem = 0 THEN <<d.quo - 1>> ELSE <<d.quo>>

\* the second loop of correct_splits: in a debug build each pass pops one
\* marker and asserts it was 0; in a release build debug_assert_eq! does not
\* evaluate its arguments, nothing is popped and the loop never ends.
RECURSIVE correct_splits_shrink(_, _)
correct_splits_shrink(self, rows) ==
    IF Len(self.splits) <= rows THEN self
    ELSE IF ~debug_assertions THEN Hang(self)
    ELSE LET popped == self.splits[Len(self.splits)]
             rest == [self EXCEPT !.splits = SubSeq(self.splits, 1, Len(self.splits) - 1)]
         IN IF popped # 0 THEN RemovedRowNotContiguous(rest)
            ELSE correct_splits_shrink(rest, rows)

correct_splits(self) ==
    LET rows == (len(self) \div self.row_width) + 1
        grown == [self EXCEPT !.splits =
                     self.splits \o [i \in 1..Max(0, rows - Len(self.splits)) |-> 0]]
        shrunk == correct_splits_shrink(grown, rows)
    IN IF shrunk.status # "ok" THEN shrunk
       ELSE LET last == Len(shrunk.splits) - 1
                split == shrunk.splits[last + 1]
            IN IF split = 0 THEN shrunk
               ELSE LET start == last * shrunk.row_width
                        end == Min(start + shrunk.row_width, len(shrunk))
                    IN IF start > end THEN Panic(shrunk)
                       ELSE LET r == util_make_contiguous(
                                         SubSeq(shrunk.backing, start + 1, end), split)
                            IN IF ~r.ok THEN Panic(shrunk)
                               ELSE [shrunk EXCEPT
                                        !.backing = splice(shrunk.backing, start, end, r.slice),
                                        !.splits[last + 1] = 0]

\* real_index: [ok, i]; ok = FALSE when splits[target_row] is out of bounds
real_index(self, index) ==
    LET d == div_rem(index, self.row_width) IN
    IF d.quo + 1 > Len(self.splits) THEN [ok |-> FALSE, i |-> 0]
    ELSE [ok |-> TRUE,
          i |-> (d.quo * self.row_width)
                + wrap_add(self.row_width, self.splits[d.quo + 1], d.rem)]

\* get: None past the end, and Vec::get's None for a real index past the end
get(self, index) ==
    IF index >= len(self) THEN <<>>
    ELSE LET r == real_index(self, index)
         IN IF r.ok /\ r.i < len(self) THEN <<self.backing[r.i + 1]>> ELSE <<>>

\* get(index) fails: the row of index has no split marker, self.splits[row]
\* is out of bounds
get_panics(self, index) == index < len(self) /\ ~real_index(self, index).ok

\* front: get(0); back: the last element of the backing Vec
front(self) == get(self, 0)

back(self) == IF is_empty(self) THEN <<>> ELSE <<self.backing[len(self)]>>

\* the loop of push_front and insert: for row in from..stop, swap temp with the
\* row's last logical element and move the split back by one
RECURSIVE swap_into_next_rows(_, _, _, _)
swap_into_next_rows(self, temp, row, stop) ==
    IF row >= stop THEN [self |-> self, temp |-> temp]
    ELSE IF row + 1 > Len(self.splits) THEN [self |-> Panic(self), temp |-> temp]
    ELSE LET split == self.splits[row + 1]
             last == (row * self.row_width) + wrap_add(self.row_width, split, -1)
         IN IF last >= len(self) THEN [self |-> Panic(self), temp |-> temp]
            ELSE swap_into_next_rows(
                     [self EXCEPT !.backing[last + 1] = temp,
                                  !.splits[row + 1] = wrap_add(self.row_width, split, -1)],
                     self.backing[last + 1], row + 1, stop)

\* the loop of pop_front and remove: for row in (from..stop).rev(), swap temp
\* with the row's first logical element and move the split forward by one
RECURSIVE swap_into_previous_rows(_, _, _, _)
swap_into_previous_rows(self, temp, from, row) ==
    IF row < from THEN [self |-> self, temp |-> temp]
    ELSE IF row + 1 > Len(self.splits) THEN [self |-> Panic(self), temp |-> temp]
    ELSE LET split == self.splits[row + 1]
             start == (row * self.row_width) + split
         IN IF start >= len(self) THEN [self |-> Panic(self), temp |-> temp]
            ELSE swap_into_previous_rows(
                     [self EXCEPT !.backing[start + 1] = temp,
                                  !.splits[row + 1] = wrap_add(self.row_width, split, 1)],
                     self.backing[start + 1], from, row - 1)

\* an operation's outcome: the container and the value returned (if it returned)
Out(self, r) == [self |-> self, ret |-> IF self.status = "ok" THEN r ELSE <<>>]

pop_front(self) ==
    LET lr == last_row(self) IN
    IF lr = <<>> THEN Out(self, <<>>)
    ELSE LET last == lr[1]
             at == last * self.row_width
             removed == [self EXCEPT !.backing = vec_remove(self.backing, at)]
             w == swap_into_previous_rows(removed, self.backing[at + 1], 0, last - 1)
         IN IF w.self.status # "ok" THEN Out(w.self, <<>>)
            ELSE Out(correct_splits(w.self), <<w.temp>>)

pop_back(self) ==
    LET element == IF is_empty(self) THEN <<>> ELSE <<self.backing[len(self)]>>
        popped == [self EXCEPT !.backing = SubSeq(self.backing, 1, len(self) - 1)]
    IN Out(correct_splits(popped), element)

push_front(self, element) ==
    LET w == swap_into_next_rows(self, element, 0, back_row(self)) IN
    IF w.self.status # "ok" THEN w.self
    ELSE correct_splits(
             [w.self EXCEPT !.backing =
                 vec_insert(w.self.backing, back_row(w.self) * self.row_width, w.temp)])

push_back(self, element) ==
    correct_splits([self EXCEPT !.backing = Append(self.backing, element)])

\* the in-row step of insert
insert_in_row(self, target_row, target_col, element) ==
    LET split == self.splits[target_row + 1]
        start == target_row * self.row_width
        last == wrap_add(self.row_width, split, -1)
        swapped == [self EXCEPT !.backing[start + last + 1] = element]
        temp == self.backing[start + last + 1]
        before == last
        after == wrap_add(self.row_width, split, target_col)
    IN IF before <= after
       THEN [self |-> [swapped EXCEPT
                          !.backing = splice(swapped.backing, start + before, start + after + 1,
                                         rotate_left(SubSeq(swapped.backing, start + before + 1,
                                                            start + after + 1), 1)),
                          !.splits[target_row + 1] = wrap_add(self.row_width, split, -1)],
             temp |-> temp]
       ELSE [self |-> [swapped EXCEPT
                          !.backing = splice(swapped.backing, start + after, start + before + 1,
                                         rotate_right(SubSeq(swapped.backing, start + after + 1,
                                                             start + before + 1), 1))],
             temp |-> temp]

\* insert that clamps an index past the end instead of rejecting it
insert_clamps_index(self, index, element) ==
    correct_splits([self EXCEPT !.backing =
                       vec_insert(self.backing, Min(index, len(self)), element)])

\* insert carrying the new element through every row from row 0 on
insert_from_row_0(self, index, element) ==
    IF ~(index <= len(self)) THEN Panic(self) ELSE push_front(self, element)

insert(self, index, element) ==
    IF ~(index <= len(self)) THEN Panic(self)
    ELSE LET d == div_rem(index, self.row_width)
             target_row == d.quo
             target_col == d.rem
         IN IF target_row = back_row(self)
            THEN correct_splits([self EXCEPT !.backing = vec_insert(self.backing, index, element)])
            ELSE IF target_row + 1 > Len(self.splits) THEN Panic(self)
            ELSE LET r == insert_in_row(self, target_row, target_col, element)
                     w == swap_into_next_rows(r.self, r.temp, target_row + 1, back_row(self))
                 IN IF w.self.status # "ok" THEN w.self
                    ELSE correct_splits(
                             [w.self EXCEPT !.backing =
                                 vec_insert(w.self.backing,
                                            back_row(w.self) * self.row_width, w.temp)])

\* the in-row step of remove
remove_in_row(self, target_row, target_col, carried) ==
    LET split == self.splits[target_row + 1]
        start == target_row * self.row_width
        col == wrap_add(self.row_width, split, target_col)
        swapped == [self EXCEPT !.backing[start + col + 1] = carried]
        temp == self.backing[start + col + 1]
        before == col
        after == split
    IN IF before < after
       THEN [self |-> [swapped EXCEPT
                          !.backing = splice(swapped.backing, start + before, start + after + 1,
                                         rotate_left(SubSeq(swapped.backing, start + before + 1,
                                                            start + after + 1), 1))],
             temp |-> temp]
       ELSE [self |-> [swapped EXCEPT
                          !.backing = splice(swapped.backing, start + after, start + before + 1,
                                         rotate_right(SubSeq(swapped.backing, start + after + 1,
                                                             start + before + 1), 1)),
                          !.splits[target_row + 1] = wrap_add(self.row_width, split, 1)],
             temp |-> temp]

remove(self, index) ==
    IF index >= len(self) THEN Out(self, <<>>)
    ELSE LET last == last_row(self)[1]
             d == div_rem(index, self.row_width)
             target_row == d.quo
             target_col == d.rem
         IN IF target_row = last
            THEN Out(correct_splits([self EXCEPT !.backing = vec_remove(self.backing, index)]),
                     <<self.backing[index + 1]>>)
            ELSE LET at == last * self.row_width
                     removed == [self EXCEPT !.backing = vec_remove(self.backing, at)]
                     w == swap_into_previous_rows(removed, self.backing[at + 1],
                                                  target_row + 1, last - 1)
                 IN IF w.self.status # "ok" THEN Out(w.self, <<>>)
                    ELSE IF target_row + 1 > Len(w.self.splits) THEN Out(Panic(w.self), <<>>)
                    ELSE LET r == remove_in_row(w.self, target_row, target_col, w.temp)
                         IN Out(correct_splits(r.self), <<r.temp>>)

\* Igush::make_contiguous: rotates every row with a non-zero split; the markers
\* in self.splits are not written
RECURSIVE make_contiguous_rows(_, _, _)
make_contiguous_rows(self, i, last) ==
    IF i > last THEN self
    ELSE LET start == i * self.row_width
             end == Min(start + self.row_width, len(self))
         IN IF start > end \/ i + 1 > Len(self.splits) THEN Panic(self)
            ELSE LET split == self.splits[i + 1] IN
                 IF split > 0
                 THEN LET r == util_make_contiguous(SubSeq(self.backing, start + 1, end), split)
                      IN IF ~r.ok THEN Panic(self)
                         ELSE make_contiguous_rows(
                                  [self EXCEPT !.backing = splice(self.backing, start, end, r.slice)],
                                  i + 1, last)
                 ELSE make_contiguous_rows(self, i + 1, last)

make_contiguous(self) ==
    LET lr == last_row(self) IN
    IF lr = <<>> THEN self ELSE make_contiguous_rows(self, 0, lr[1])

\* an export that hands out the backing Vec as it lies, without linearizing
into_without_make_contiguous(self) == Out(self, self.backing)

\* Into<Vec<T>>: make_contiguous, then the backing Vec is the result
into(self) ==
    LET c == make_contiguous(self) IN Out(c, c.backing)

\* extend_back / extend_front: one push per item
RECURSIVE extend_back(_, _)
extend_back(self, iter) ==
    IF iter = <<>> \/ self.status # "ok" THEN self
    ELSE extend_back(push_back(self, Head(iter)), Tail(iter))

RECURSIVE extend_front(_, _)
extend_front(self, iter) ==
    IF iter = <<>> \/ self.status # "ok" THEN self
    ELSE extend_front(push_front(self, Head(iter)), Tail(iter))

\* truncate: the range n..self.len() is evaluated once, one pop_back per item
RECURSIVE pop_back_times(_, _)
pop_back_times(self, count) ==
    IF count <= 0 \/ self.status # "ok" THEN self
    ELSE pop_back_times(pop_back(self).self, count - 1)

truncate(self, n) == pop_back_times(self, len(self) - n)

\* drain: remove(index).unwrap() for index in (start..end).rev(), collected and
\* reversed
RECURSIVE drain_removes(_, _, _, _)
drain_removes(self, start, index, out) ==
    IF index < start \/ self.status # "ok" THEN Out(self, out)
    ELSE LET r == remove(self, index)
         IN IF r.self.status = "ok" /\ r.ret = <<>> THEN Out(Panic(r.self), <<>>)
            ELSE drain_removes(r.self, start, index - 1, r.ret \o out)

drain(self, start, end) ==
    IF ~(start <= end) \/ ~(end <= len(self)) THEN Out(Panic(self), <<>>)
    ELSE drain_removes(self, start, end - 1, <<>>)

clear(self) == [self EXCEPT !.splits = <<0>>, !.backing = <<>>]

\* From<Vec<T>> that seeds a single split marker, as new does
From_single_split(other) ==
    Igush(other, <<0>>, Max(integer_sqrt(Len(other)), DEFAULT_WIDTH))

\* From<Vec<T>> that always takes the default row width
From_default_width(other) ==
    Igush(other, [i \in 1..((Len(other) \div DEFAULT_WIDTH) + 1) |-> 0], DEFAULT_WIDTH)

\* From<Vec<T>>
From(other) ==
    LET w == Max(integer_sqrt(Len(other)), DEFAULT_WIDTH)
        rows == (Len(other) \div w) + 1
    IN Igush(other, [i \in 1..rows |-> 0], w)

\* From<&[T]>: the same, on a copy of the slice
from_slice(other) ==
    LET w == Max(integer_sqrt(Len(other)), DEFAULT_WIDTH)
        rows == (Len(other) \div w) + 1
    IN Igush(other, [i \in 1..rows |-> 0], w)

\* split_off: the returned Igush is From(ret)
split_off(self, at) ==
    IF ~(at <= len(self)) THEN Out(Panic(self), <<>>)
    ELSE LET c == make_contiguous(self) IN
         IF c.status # "ok" THEN Out(c, <<>>)
         ELSE Out(correct_splits([c EXCEPT !.backing = SubSeq(c.backing, 1, at)]),
                  SubSeq(c.backing, at + 1, len(c)))

\* append(other): other is drained whole and its items pushed at the back
append(self, other) ==
    LET d == drain(other, 0, len(other)) IN
    IF d.self.status # "ok" THEN [self EXCEPT !.status = d.self.status]
    ELSE extend_back(self, d.ret)

\* retain with the predicate "element is in keep"
retain(self, keep) ==
    LET c == make_contiguous(self) IN
    IF c.status # "ok" THEN c
    ELSE [c EXCEPT !.backing = SelectSeq(c.backing, LAMBDA e : e \in keep)]

resize(self, new_len, value) ==
    IF new_len > len(self)
    THEN extend_back(self, [i \in 1..(new_len - len(self)) |-> value])
    ELSE truncate(self, new_len)

\* VecCompat::sort_unstable
sort_unstable(self) ==
    [self EXCEPT !.backing = sort_unstable_vec(self.backing),
                 !.splits = [i \in 1..Len(self.splits) |-> 0]]

\* PartialEq for Igush: false on different lengths, otherwise the two iterators
\* are compared pairwise; an iterator item is get(index).unwrap(), which
\* panics on None.  The result is "true", "false" or "panic".
RECURSIVE iter_eq(_, _, _)
iter_eq(self, other, index) ==
    IF index >= len(self) THEN "true"
    ELSE IF get_panics(self, index) \/ get(self, index) = <<>> THEN "panic"
    ELSE IF get_panics(other, index) \/ get(other, index) = <<>> THEN "panic"
    ELSE IF get(self, index) # get(other, index) THEN "false"
    ELSE iter_eq(self, other, index + 1)

eq(self, other) ==
    IF len(self) # len(other) THEN "false" ELSE iter_eq(self, other, 0)

\* ------------------------------------------------- the reference sequence
\* The same operations on a plain sequence (std's Vec / VecDeque semantics).
\* s[m..n] (1-based, inclusive), clipped to the sequence
ref_sub(s, m, n) == [i \in 1..(Min(n, Len(s)) - m + 1) |-> s[m + i - 1]]
ref_insert(s, index, element) == IF index <= Len(s) THEN vec_insert(s, index, element) ELSE s
ref_remove(s, index) == IF index < Len(s) THEN vec_remove(s, index) ELSE s
ref_removed(s, index) == IF index < Len(s) THEN <<s[index + 1]>> ELSE <<>>
ref_truncate(s, n) == ref_sub(s, 1, n)
ref_resize(s, n, value) ==
    IF n > Len(s) THEN s \o [i \in 1..(n - Len(s)) |-> value] ELSE ref_sub(s, 1, n)
ref_retain(s, keep) == SelectSeq(s, LAMBDA e : e \in keep)
ref_drain(s, start, end) == ref_sub(s, 1, start) \o ref_sub(s, end + 1, Len(s))

\* ------------------------------------------------------------------ state
Self == [backing |-> backing, splits |-> splits, row_width |-> row_width, status |-> status]

\* ------------------------------------------------------------- observations
\* the logical sequence as read through get: one Option per index
Logical(self) == [i \in 1..len(self) |-> get(self, i - 1)]

\* a plain sequence as the sequence of Some(_) it should read as
Some(s) == [i \in 1..Len(s) |-> <<s[i]>>]

\* the container and the reference agree on the outcome of the last call, on
\* the length and on every indexed read
Agrees ==
    /\ status = ref_status
    /\ status = "ok" =>
          /\ Len(backing) = Len(reference)
          /\ Logical(Self) = Some(reference)
          /\ ret = ref_ret

Args(index, end, value, keep, items) ==
    [index |-> index, end |-> end, value |-> value, keep |-> keep, items |-> items]

NoArgs == Args(0, 0, 0, {}, <<>>)

Items == UNION {[1..n -> Vals] : n \in 0..MaxItems}

Init ==
    /\ row_width \in 1..MaxWidth
    /\ debug_assertions \in BOOLEAN
    /\ backing = new(row_width).backing
    /\ splits = new(row_width).splits
    /\ status = "ok"
    /\ op = "new"
    /\ args = NoArgs
    /\ ret = <<>>
    /\ differential = "running"
    /\ reference = <<>>
    /\ ref_ret = <<>>
    /\ ref_status = "ok"

\* the containers a state's container is compared with: every short sequence
\* t built in every row width, once by pushing t at the back and once by
\* pushing its reverse at the front
Reverse(s) == [i \in 1..Len(s) |-> s[Len(s) - i + 1]]

Others ==
    UNION {{extend_back(new(w), t), extend_front(new(w), Reverse(t))} :
              w \in 1..MaxWidth, t \in UNION {[1..n -> Vals] : n \in 0..MaxLen}}

\* one call: the container it leaves and what it returned.  The differential
\* test applies the call to the reference too, as long as the two agreed
\* before the call; it stops at the first mismatch.
Call(name, a, after, returned, ref_after, ref_returned) ==
    /\ backing' = after.backing
    /\ splits' = after.splits
    /\ status' = after.status
    /\ op' = name
    /\ args' = a
    /\ ret' = returned
    /\ IF differential = "running" /\ Agrees
       THEN /\ differential' = "running"
            /\ reference' = ref_after
            /\ ref_ret' = ref_returned
            /\ ref_status' = IF name = "insert" /\ a.index > Len(reference)
                             THEN "panic" ELSE "ok"
       ELSE /\ differential' = "stopped"
            /\ reference' = <<>>
            /\ ref_ret' = <<>>
            /\ ref_status' = "ok"
    /\ UNCHANGED <<row_width, debug_assertions>>

PushFront ==
    /\ status = "ok" /\ Len(backing) < MaxLen
    /\ \E v \in Vals :
          Call("push_front", Args(0, 0, v, {}, <<>>), push_front(Self, v), <<>>,
               <<v>> \o reference, <<>>)

\* push_front on containers of up to MaxRowsLen elements: with row width 2,
\* two full rows in front of the trailing one
PushFrontRows ==
    /\ status = "ok" /\ Len(backing) < MaxRowsLen
    /\ \E v \in Vals :
          Call("push_front", Args(0, 0, v, {}, <<>>), push_front(Self, v), <<>>,
               <<v>> \o reference, <<>>)

PushBack ==
    /\ status = "ok" /\ Len(backing) < MaxLen
    /\ \E v \in Vals :
          Call("push_back", Args(0, 0, v, {}, <<>>), push_back(Self, v), <<>>,
               Append(reference, v), <<>>)

PopFront ==
    /\ status = "ok"
    /\ LET r == pop_front(Self) IN
          Call("pop_front", NoArgs, r.self, r.ret,
               ref_remove(reference, 0), ref_removed(reference, 0))

PopBack ==
    /\ status = "ok"
    /\ LET r == pop_back(Self) IN
          Call("pop_back", NoArgs, r.self, r.ret,
               ref_truncate(reference, Len(reference) - 1),
               IF reference = <<>> THEN <<>> ELSE <<reference[Len(reference)]>>)

Insert ==
    /\ status = "ok" /\ Len(backing) < MaxLen
    /\ \E index \in 0..(Len(backing) + 1), v \in Vals :
          Call("insert", Args(index, 0, v, {}, <<>>), insert(Self, index, v), <<>>,
               ref_insert(reference, index, v), <<>>)

\* insert on containers of up to MaxRowsLen elements
InsertRows ==
    /\ status = "ok" /\ Len(backing) < MaxRowsLen
    /\ \E index \in 0..(Len(backing) + 1), v \in Vals :
          Call("insert", Args(index, 0, v, {}, <<>>), insert(Self, index, v), <<>>,
               ref_insert(reference, index, v), <<>>)

Remove ==
    /\ status = "ok"
    /\ \E index \in 0..Len(backing) :
          LET r == remove(Self, index) IN
          Call("remove", Args(index, 0, 0, {}, <<>>), r.self, r.ret,
               ref_remove(reference, index), ref_removed(reference, index))

Drain ==
    /\ status = "ok"
    /\ \E end \in 0..Len(backing) : \E start \in 0..end :
          LET r == drain(Self, start, end) IN
          Call("drain", Args(start, end, 0, {}, <<>>), r.self, r.ret,
               ref_drain(reference, start, end), ref_sub(reference, start + 1, end))

Truncate ==
    /\ status = "ok"
    /\ \E n \in 0..(Len(backing) + 1) :
          Call("truncate", Args(n, 0, 0, {}, <<>>), truncate(Self, n), <<>>,
               ref_truncate(reference, n), <<>>)

Resize ==
    /\ status = "ok"
    /\ \E n \in 0..MaxLen, v \in Vals :
          Call("resize", Args(n, 0, v, {}, <<>>), resize(Self, n, v), <<>>,
               ref_resize(reference, n, v), <<>>)

Retain ==
    /\ status = "ok"
    /\ \E keep \in SUBSET Vals :
          Call("retain", Args(0, 0, 0, keep, <<>>), retain(Self, keep), <<>>,
               ref_retain(reference, keep), <<>>)

SplitOff ==
    /\ status = "ok"
    /\ \E at \in 0..Len(backing) :
          LET r == split_off(Self, at) IN
          Call("split_off", Args(at, 0, 0, {}, <<>>), r.self, r.ret,
               ref_sub(reference, 1, at), ref_sub(reference, at + 1, Len(reference)))

AppendOther ==
    /\ status = "ok"
    /\ \E items \in Items :
          /\ Len(backing) + Len(items) <= MaxLen
          /\ Call("append", Args(0, 0, 0, {}, items), append(Self, From(items)), <<>>,
                  reference \o items, <<>>)

Clear ==
    /\ status = "ok"
    /\ Call("clear", NoArgs, clear(Self), <<>>, <<>>, <<>>)

SortUnstable ==
    /\ status = "ok"
    /\ Call("sort_unstable", NoArgs, sort_unstable(Self), <<>>,
            sort_unstable_vec(reference), <<>>)

MakeContiguous ==
    /\ status = "ok"
    /\ LET c == make_contiguous(Self) IN
          Call("make_contiguous", NoArgs, c, IF c.status = "ok" THEN c.backing ELSE <<>>,
               reference, reference)

\* export to a Vec (Into<Vec<T>>) and re-import it (From<Vec<T>>): the
\* container is replaced by the re-imported one, whose row width From chooses
RoundTrip ==
    /\ status = "ok"
    /\ LET exported == into(Self)
           imported == From(exported.ret)
       IN IF exported.self.status = "ok"
          THEN /\ backing' = imported.backing
               /\ splits' = imported.splits
               /\ row_width' = imported.row_width
               /\ status' = imported.status
               /\ ret' = exported.ret
          ELSE /\ backing' = exported.self.backing
               /\ splits' = exported.self.splits
               /\ row_width' = row_width
               /\ status' = exported.self.status
               /\ ret' = <<>>
    /\ op' = "round_trip"
    /\ args' = NoArgs
    /\ IF differential = "running" /\ Agrees
       THEN /\ differential' = "running"
            /\ reference' = reference
            /\ ref_ret' = reference
       ELSE /\ differential' = "stopped"
            /\ reference' = <<>>
            /\ ref_ret' = <<>>
    /\ ref_status' = "ok"
    /\ UNCHANGED debug_assertions

\* construction: before it there is no container (status "none")
InitConstruct ==
    /\ row_width = 0
    /\ debug_assertions \in BOOLEAN
    /\ backing = <<>>
    /\ splits = <<>>
    /\ status = "none"
    /\ op = "none"
    /\ args = NoArgs
    /\ ret = <<>>
    /\ differential = "running"
    /\ reference = <<>>
    /\ ref_ret = <<>>
    /\ ref_status = "ok"

Construct(name, a, created) ==
    /\ status = "none"
    /\ backing' = created.backing
    /\ splits' = created.splits
    /\ row_width' = created.row_width
    /\ status' = created.status
    /\ op' = name
    /\ args' = a
    /\ ref_status' = created.status
    /\ UNCHANGED <<ret, differential, reference, ref_ret, debug_assertions>>

New ==
    /\ status = "none"
    /\ \E w \in 0..MaxWidth :
           Construct("new", Args(w, 0, 0, {}, <<>>), new(w))

WithCapacity ==
    /\ status = "none"
    /\ \E w \in 0..MaxWidth, capacity \in 0..(2 * MaxLen) :
           Construct("with_capacity", Args(w, capacity, 0, {}, <<>>), with_capacity(w, capacity))

\* the flat sequences a container is built from: every short one, and one
\* for each length around a multiple of the default row width, around the
\* first length whose square root exceeds it, and up to MaxFromLen
FromLens ==
    {DEFAULT_WIDTH - 1, DEFAULT_WIDTH, (2 * DEFAULT_WIDTH) - 1, 2 * DEFAULT_WIDTH,
     (DEFAULT_WIDTH * DEFAULT_WIDTH) + (2 * DEFAULT_WIDTH),
     (DEFAULT_WIDTH + 1) * (DEFAULT_WIDTH + 1), MaxFromLen}

FromInputs ==
    UNION {[1..n -> Vals] : n \in 0..MaxLen}
      \cup {[i \in 1..n |-> (i % MaxVal) + 1] : n \in FromLens}

FromVec ==
    /\ status = "none"
    /\ \E v \in FromInputs :
           Construct("from", Args(0, 0, 0, {}, v), From(v))

FromSlice ==
    /\ status = "none"
    /\ \E v \in FromInputs :
           Construct("from_slice", Args(0, 0, 0, {}, v), from_slice(v))

\* the functions of util.rs called on their own, one call per run: no
\* container exists (status stays "none"); args holds the inputs and ret the
\* value returned
UtilCall(name, a, returned, panicked) ==
    /\ op' = name
    /\ args' = a
    /\ ret' = IF panicked THEN <<>> ELSE returned
    /\ status' = IF panicked THEN "panic" ELSE "none"
    /\ UNCHANGED <<backing, splits, row_width, debug_assertions,
                   differential, reference, ref_ret, ref_status>>

\* wrap_add(length, split, other): length in args.end, split in args.index,
\* other in args.value
WrapAdd ==
    /\ status = "none" /\ op = "none"
    /\ \E length \in 1..MaxUtilLen :
       \E split \in 0..(length - 1), other \in (-length)..length :
          LET r == wrap_add(length, split, other) IN
          UtilCall("wrap_add", Args(split, length, other, {}, <<>>), <<r>>,
                   debug_assertions /\ r < 0)

\* util::make_contiguous(slice, split) on a slice of n distinct elements:
\* slice in args.items, split in args.index
UtilMakeContiguous ==
    /\ status = "none" /\ op = "none"
    /\ \E n \in 0..MaxUtilLen : \E split \in 0..(n + 1) :
          LET slice == [i \in 1..n |-> i]
              r == util_make_contiguous(slice, split)
          IN UtilCall("util::make_contiguous", Args(split, 0, 0, {}, slice), r.slice, ~r.ok)

\* the six core operations of the differential test
NextCore ==
    \/ PushFront
    \/ PushBack
    \/ PopFront
    \/ PopBack
    \/ Insert
    \/ Remove

Next ==
    \/ PushFront
    \/ PushBack
    \/ PopFront
    \/ PopBack
    \/ Insert
    \/ Remove
    \/ Drain
    \/ Truncate
    \/ Resize
    \/ Retain
    \/ SplitOff
    \/ AppendOther
    \/ Clear
    \/ SortUnstable
    \/ MakeContiguous

\* building a container with pushes and inserts, exporting and re-importing it
NextRoundTrip ==
    \/ PushFront
    \/ PushBack
    \/ Insert
    \/ RoundTrip

\* constructing a container and filling it with pushes
NextConstruct ==
    \/ New
    \/ WithCapacity
    \/ PushFront
    \/ PushBack

\* building a container from a flat sequence, then pushing
NextFrom ==
    \/ FromVec
    \/ FromSlice
    \/ PushFront
    \/ PushBack

\* front insertions over several rows, then shrinking from the back
NextRows ==
    \/ PushFrontRows
    \/ Truncate
    \/ SplitOff

\* the functions of util.rs
NextUtil ==
    \/ WrapAdd
    \/ UtilMakeContiguous

\* insertions and removals in the middle rows of containers of several rows
NextMiddle ==
    \/ PushFrontRows
    \/ InsertRows
    \/ Remove

Spec == Init /\ [][Next]_vars

SpecMiddle == Init /\ [][NextMiddle]_vars

SpecUtil == InitConstruct /\ [][NextUtil]_vars

SpecRows == Init /\ [][NextRows]_vars

SpecCore == Init /\ [][NextCore]_vars

SpecRoundTrip == Init /\ [][NextRoundTrip]_vars

SpecConstruct == InitConstruct /\ [][NextConstruct]_vars

SpecFrom == InitConstruct /\ [][NextFrom]_vars

\* ------------------------------------------------------------------ types
TypeOK ==
    /\ backing \in Seq(Vals)
    /\ status \in {"none", "ok", "panic", "debug_assert", "hang"}
    /\ row_width \in 0..Max(MaxWidth, Max(DEFAULT_WIDTH, integer_sqrt(MaxFromLen)))
    /\ \A i \in 1..Len(splits) : splits[i] \in 0..(row_width - 1)

\* ------------------------------------------------------------------ claims

\* C1: applied identically to an Igush and to a reference sequence, every
\* interleaving of push_front, push_back, pop_front, pop_back, insert and
\* remove leaves the two with the same length, the same element at every
\* index and the same returned values, after each step.
C1_DifferentialEquivalence ==
    (differential = "running" /\ status = "ok") => Agrees

\* C2: in every state a public mutator returns in, the number of split
\* markers is floor(len / row_width) + 1.
C2_SplitCount ==
    status = "ok" => Len(splits) = (Len(backing) \div row_width) + 1

\* C3: in every state a public mutator returns in, the split marker of the
\* trailing row (row floor(len / row_width)) is 0.
C3_TrailingSplitZero ==
    status = "ok" =>
        /\ back_row(Self) + 1 <= Len(splits)
        /\ splits[back_row(Self) + 1] = 0

\* C4: in every state a public mutator returns in, every split marker is in
\* [0, W) and index resolution is a bijection from [0, len) onto [0, len).
C4_IndexBijection ==
    status = "ok" =>
        /\ \A r \in 1..Len(splits) : splits[r] \in 0..(row_width - 1)
        /\ \A i \in 0..(Len(backing) - 1) :
              /\ real_index(Self, i).ok
              /\ real_index(Self, i).i \in 0..(Len(backing) - 1)
        /\ \A i, j \in 0..(Len(backing) - 1) :
              real_index(Self, i).i = real_index(Self, j).i => i = j

\* every indexed read below len yields an element: the state has a logical
\* sequence
Defined(self) == \A i \in 1..len(self) : Logical(self)[i] # <<>>

\* C5: whenever insert(index, v) with index <= len returns from a state with
\* logical sequence s, the logical sequence is s[0..index), v, s[index..len).
C5_InsertShifts ==
    [][(status = "ok" /\ Defined(Self) /\ op' = "insert" /\ status' = "ok") =>
          Logical(Self)' = vec_insert(Logical(Self), args'.index, <<args'.value>>)]_vars

\* C6: whenever remove(index) with index < len returns from a state with
\* logical sequence s, it has returned s[index] and left s with position
\* index deleted.
C6_RemoveDeletes ==
    [][(status = "ok" /\ Defined(Self) /\ op' = "remove" /\ status' = "ok"
            /\ args'.index < Len(backing)) =>
          /\ ret' = Logical(Self)[args'.index + 1]
          /\ Logical(Self)' = vec_remove(Logical(Self), args'.index)]_vars

\* C7: whenever pop_back returns from a non-empty state with logical sequence
\* s, it has returned s[len - 1] and left s[0..len - 1).
C7_PopBackLast ==
    [][(status = "ok" /\ Defined(Self) /\ op' = "pop_back" /\ status' = "ok"
            /\ Len(backing) > 0) =>
          /\ ret' = Logical(Self)[Len(backing)]
          /\ Logical(Self)' = SubSeq(Logical(Self), 1, Len(backing) - 1)]_vars

\* C8: whenever pop_front returns from a non-empty state with logical
\* sequence s, it has returned s[0] and left s[1..len).
C8_PopFrontFirst ==
    [][(status = "ok" /\ Defined(Self) /\ op' = "pop_front" /\ status' = "ok"
            /\ Len(backing) > 0) =>
          /\ ret' = Logical(Self)[1]
          /\ Logical(Self)' = Tail(Logical(Self))]_vars

\* C9: from every state with logical sequence s, push_front(v) returns, the
\* length is then len + 1 and the logical sequence is v, s.
C9_PushFrontPrepends ==
    [][(status = "ok" /\ Defined(Self) /\ op' = "push_front") =>
          /\ status' = "ok"
          /\ Len(backing') = Len(backing) + 1
          /\ Logical(Self)' = <<(<<args'.value>>)>> \o Logical(Self)]_vars

\* C10: from every state with logical sequence s, push_back(v) returns, the
\* length is then len + 1 and the logical sequence is s, v.
C10_PushBackAppends ==
    [][(status = "ok" /\ Defined(Self) /\ op' = "push_back") =>
          /\ status' = "ok"
          /\ Len(backing') = Len(backing) + 1
          /\ Logical(Self)' = Append(Logical(Self), <<args'.value>>)]_vars

\* C11: in every state a public mutator returns in and for every index,
\* get(index) does not fail and is None if and only if index >= len.
C11_GetAbsentIffOutOfRange ==
    status = "ok" =>
        \A index \in 0..(MaxLen + 1) :
            /\ ~get_panics(Self, index)
            /\ (get(Self, index) = <<>>) <=> (index >= Len(backing))

\* C12: remove(index) with index >= len, and pop_front / pop_back on an empty
\* container, return None without failing and leave the backing buffer and
\* the split markers as they were.
C12_OutOfRangeRemovalsAreNoOps ==
    [][(/\ status = "ok"
        /\ \/ op' = "remove" /\ args'.index >= Len(backing)
           \/ op' \in {"pop_front", "pop_back"} /\ Len(backing) = 0) =>
          /\ status' = "ok"
          /\ ret' = <<>>
          /\ backing' = backing
          /\ splits' = splits]_vars

\* C13: insert(index, v) with index > len panics, and at that point neither
\* the backing buffer nor any split marker has been modified.
C13_InsertPastEndPanics ==
    [][(status = "ok" /\ op' = "insert" /\ args'.index > Len(backing)) =>
          /\ status' = "panic"
          /\ backing' = backing
          /\ splits' = splits]_vars

\* an insert past the end of a non-empty container with a moved split has
\* been rejected
C13_Witness ==
    /\ op = "insert" /\ status = "panic"
    /\ args.index > Len(backing)
    /\ Len(backing) > 0
    /\ \E r \in 1..Len(splits) : splits[r] # 0

\* C14: in every state a public mutator returns in, insert(len, v) succeeds
\* and leaves exactly the backing buffer and the split markers push_back(v)
\* leaves from the same state.
C14_InsertAtLenIsPushBack ==
    [][(status = "ok" /\ op' = "insert" /\ args'.index = Len(backing)) =>
          /\ status' = "ok"
          /\ backing' = push_back(Self, args'.value).backing
          /\ splits' = push_back(Self, args'.value).splits]_vars

\* C15: in every state a public mutator returns in, exporting the container
\* to a Vec succeeds and yields len elements, the i-th of which is what
\* get(i) returns just before the export.
C15_IntoVecIsLogicalSequence ==
    status = "ok" =>
        /\ into(Self).self.status = "ok"
        /\ Len(into(Self).ret) = Len(backing)
        /\ \A i \in 1..Len(backing) : get(Self, i - 1) = <<into(Self).ret[i]>>

\* C16: from every state with logical sequence s, make_contiguous returns,
\* the logical sequence read through get is still s, the backing buffer holds
\* s in physical order and every split marker is 0.
C16_MakeContiguousLinearizes ==
    [][(status = "ok" /\ Defined(Self) /\ op' = "make_contiguous") =>
          /\ status' = "ok"
          /\ Logical(Self)' = Logical(Self)
          /\ Some(backing') = Logical(Self)
          /\ \A r \in 1..Len(splits') : splits'[r] = 0]_vars

\* C17: a make_contiguous that directly follows a make_contiguous returns the
\* same flat sequence and moves no element of the backing buffer.
C17_MakeContiguousIdempotent ==
    [][(status = "ok" /\ op = "make_contiguous" /\ op' = "make_contiguous") =>
          /\ status' = "ok"
          /\ ret' = ret
          /\ backing' = backing]_vars

\* C18: for a container built by push_front, push_back and insert calls,
\* exporting it to a Vec and re-importing that Vec yields a container of the
\* same length with the same element at every logical index, and a
\* push_front(v) on the re-imported container yields v followed by that
\* sequence.
C18_RoundTrip ==
    [][/\ (status = "ok" /\ op' = "round_trip") =>
             /\ status' = "ok"
             /\ Len(backing') = Len(backing)
             /\ Defined(Self)'
             /\ Logical(Self)' = Logical(Self)
       /\ (status = "ok" /\ op = "round_trip" /\ op' = "push_front") =>
             /\ status' = "ok"
             /\ Logical(Self)' = <<(<<args'.value>>)>> \o Logical(Self)]_vars

\* a push_front on a re-imported container (only From sets the default row
\* width) has returned, the container is full and starts with the new value
C18_Witness ==
    /\ op = "push_front" /\ status = "ok"
    /\ row_width = DEFAULT_WIDTH
    /\ Len(backing) = MaxLen
    /\ Logical(Self)[1] = <<args.value>>

\* C19: a container in a state a public mutator returns in and any other
\* container, whatever their row widths and split markers, compare equal if
\* and only if they have the same length and equal elements at every logical
\* index, and unequal otherwise, in both directions.
C19_EqualityIsLogical ==
    status = "ok" =>
        \A other \in Others :
            /\ eq(Self, other) = IF Logical(Self) = Logical(other) THEN "true" ELSE "false"
            /\ eq(other, Self) = IF Logical(Self) = Logical(other) THEN "true" ELSE "false"

\* C20: whenever split_off(at) with at <= len returns from a state with
\* logical sequence s, it leaves self reading s[0..at) through get and has
\* returned a container that reads s[at..len).
C20_SplitOffSplits ==
    [][(status = "ok" /\ Defined(Self) /\ op' = "split_off" /\ status' = "ok"
            /\ args'.index <= Len(backing)) =>
          /\ Logical(Self)' = SubSeq(Logical(Self), 1, args'.index)
          /\ Logical(From(ret')) =
                SubSeq(Logical(Self), args'.index + 1, Len(backing))]_vars

\* C21: from every state with logical sequence s and for every predicate f,
\* retain(f) returns and the logical sequence read through get is then the
\* subsequence of s whose elements satisfy f, in the original order, len being
\* their number.
C21_RetainKeepsMatching ==
    [][(status = "ok" /\ Defined(Self) /\ op' = "retain") =>
          /\ status' = "ok"
          /\ Logical(Self)' =
                SelectSeq(Logical(Self), LAMBDA e : e # <<>> /\ e[1] \in args'.keep)
          /\ Len(backing') =
                Cardinality({i \in 1..Len(backing) : Logical(Self)[i][1] \in args'.keep})]_vars

\* C22: after retain or sort_unstable, called in any state a public mutator
\* returns in, every split marker is 0 and the number of split markers is
\* floor(len / row_width) + 1 for the new length.
C22_RetainAndSortResetSplits ==
    [][(status = "ok" /\ op' \in {"retain", "sort_unstable"}) =>
          /\ status' = "ok"
          /\ \A r \in 1..Len(splits') : splits'[r] = 0
          /\ Len(splits') = (Len(backing') \div row_width) + 1]_vars

\* C23: whenever drain(start..end) with start <= end <= len returns from a
\* state with logical sequence s, it has yielded s[start..end) in order and
\* left the logical sequence s[0..start) followed by s[end..len).
C23_DrainRemovesRange ==
    [][(status = "ok" /\ Defined(Self) /\ op' = "drain" /\ status' = "ok") =>
          /\ Some(ret') = SubSeq(Logical(Self), args'.index + 1, args'.end)
          /\ Logical(Self)' = SubSeq(Logical(Self), 1, args'.index)
                                \o SubSeq(Logical(Self), args'.end + 1, Len(backing))]_vars

\* C24: whenever truncate(n) returns from a state with logical sequence s, it
\* leaves the logical sequence s[0..min(n, len)): nothing changes when
\* n >= len.
C24_TruncateDropsBack ==
    [][(status = "ok" /\ Defined(Self) /\ op' = "truncate" /\ status' = "ok") =>
          Logical(Self)' = SubSeq(Logical(Self), 1, Min(args'.index, Len(backing)))]_vars

\* C25: in every state a public mutator returns in, back() is the element
\* get(len - 1) returns, front() is the element get(0) returns, and each is
\* None exactly when the container is empty.
C25_FrontAndBack ==
    status = "ok" =>
        /\ back(Self) = (IF Len(backing) = 0 THEN <<>> ELSE get(Self, Len(backing) - 1))
        /\ front(Self) = get(Self, 0)
        /\ (back(Self) = <<>>) <=> (Len(backing) = 0)
        /\ (front(Self) = <<>>) <=> (Len(backing) = 0)

\* C26: new and with_capacity panic for row width 0; for a row width W >= 1
\* they yield an empty container of that width whose split-marker list is
\* exactly one zero entry, whatever capacity is requested.
C26_Construction ==
    [][(status = "none" /\ op' \in {"new", "with_capacity"}) =>
          IF args'.index = 0
          THEN status' = "panic"
          ELSE /\ status' = "ok"
               /\ row_width' = args'.index
               /\ Len(backing') = 0
               /\ splits' = <<0>>]_vars

\* a container has been created with room for several rows
C26_Witness ==
    /\ op = "with_capacity" /\ status = "ok"
    /\ args.end >= 2 * args.index
    /\ backing = <<>> /\ splits = <<0>>

\* C27: building a container from a flat sequence v keeps v as the backing
\* buffer, chooses a row width W >= 1 and creates floor(len / W) + 1 split
\* markers, all zero, so that get(i) is v[i] for every i and the split count,
\* the trailing split and the index resolution are as the invariants require.
C27_FromVecInitialState ==
    [][(status = "none" /\ op' = "from") =>
          /\ status' = "ok"
          /\ backing' = args'.items
          /\ row_width' >= 1
          /\ Len(splits') = (Len(args'.items) \div row_width') + 1
          /\ \A r \in 1..Len(splits') : splits'[r] = 0
          /\ Logical(Self)' = Some(args'.items)
          /\ \A i \in 0..(Len(args'.items) - 1) :
                real_index(Self, i)' = [ok |-> TRUE, i |-> i]
          /\ C2_SplitCount' /\ C3_TrailingSplitZero']_vars

\* a container has been built from a flat sequence that fills several rows
C27_Witness ==
    /\ op = "from" /\ status = "ok"
    /\ Len(backing) >= 2 * row_width
    /\ Len(splits) >= 3

C29_OperationsTerminate == status # "hang"

\* C30: whenever pop_front, pop_back or remove takes an element out of the last
\* non-empty row (the row last_row returns, a full one included), that row's
\* split marker is 0 at that moment, so the row is physically in logical order.
C30_LastRowContiguousAtRemoval ==
    [][(/\ status = "ok"
        /\ ~is_empty(Self)
        /\ \/ op' \in {"pop_front", "pop_back"}
           \/ op' = "remove" /\ args'.index < len(Self))
          => /\ last_row(Self)[1] + 1 <= Len(splits)
             /\ splits[last_row(Self)[1] + 1] = 0]_vars

\* C31: every split marker correct_splits removes from the tail of the list is
\* 0: the debug assertion "removed row was not contiguous" fails in no state
\* reachable through public operations, split_off and truncate after front
\* insertions included.
C31_RemovedRowsAreContiguous == status # "debug_assert"

\* C32: for every W >= 1, split in [0, W) and delta in [-W, W],
\* wrap_add(W, split, delta) returns a value in [0, W) that equals
\* (split + delta) mod W, with no unsigned underflow; wrap_add(W, 0, -1) is
\* W - 1 and wrap_add(W, W - 1, 1) is 0.
C32_WrapAddIsModularSum ==
    [][(op' = "wrap_add"
        /\ args'.end >= 1
        /\ args'.index \in 0..(args'.end - 1)
        /\ args'.value \in (-args'.end)..args'.end)
          => /\ status' = "none"
             /\ ret'[1] \in 0..(args'.end - 1)
             /\ ret'[1] = (args'.index + args'.value) % args'.end
             /\ (args'.index = 0 /\ args'.value = -1) => ret'[1] = args'.end - 1
             /\ (args'.index = args'.end - 1 /\ args'.value = 1) => ret'[1] = 0]_vars

\* wrap_add has wrapped backward past column 0 in a row wider than one
C32_Witness ==
    /\ op = "wrap_add" /\ status = "none"
    /\ args.end > 1 /\ args.value < 0 /\ -args.value > args.index
    /\ ret = <<(args.index + args.end) + args.value>>

\* C33: for every slice of length n and every split with 0 < split < n,
\* util::make_contiguous leaves at position j the element formerly at
\* position (split + j) mod n, and rotates by min(split, n - split) positions.
C33_UtilMakeContiguousLeftAligns ==
    [][(op' = "util::make_contiguous"
        /\ 0 < args'.index /\ args'.index < Len(args'.items))
          => LET n == Len(args'.items)
                 split == args'.index
             IN /\ status' = "none"
                /\ Len(ret') = n
                /\ \A j \in 0..(n - 1) : ret'[j + 1] = args'.items[((split + j) % n) + 1]
                /\ util_make_contiguous(args'.items, split).by = Min(split, n - split)]_vars

\* util::make_contiguous has rotated a slice whose tail is the shorter side,
\* and one whose head is
C33_Witness ==
    /\ op = "util::make_contiguous" /\ status = "none"
    /\ 0 < args.index /\ args.index < Len(args.items)
    /\ Len(args.items) - args.index < args.index
    /\ ret # args.items

\* C34: push_front(v) on a state with k = floor(len / row_width) full rows
\* moves the split marker of each of rows 0..k-1 back by one modulo row_width,
\* makes v the first logical element of row 0 and the former last logical
\* element of row r the first logical element of row r + 1, and leaves the
\* trailing row's split at 0.
C34_PushFrontRotatesFullRows ==
    [][(status = "ok" /\ op' = "push_front")
          => LET k == Len(backing) \div row_width IN
             /\ status' = "ok"
             /\ Len(splits) >= k /\ Len(splits') >= k + 1
             /\ \A r \in 0..(k - 1) :
                   /\ splits'[r + 1] = (splits[r + 1] - 1) % row_width
                   /\ get(Self, (r * row_width) + (row_width - 1))
                        = get(Self, (r + 1) * row_width)'
             /\ get(Self, 0)' = <<args'.value>>
             /\ splits'[k + 1] = 0
             /\ splits'[Len(splits')] = 0]_vars

\* C35: when insert targets a full row before the trailing one, the new value
\* ends at the target logical column of that row and the row's other elements
\* keep their logical order; the split moves back by one when the physical
\* insertion offset is at or after the last-logical-slot offset and stays
\* otherwise; in both cases, the tie included, the row's former last logical
\* element is the value carried into the next row.
C35_InsertInRowKeepsOrder ==
    [][(/\ status = "ok"
        /\ op' = "insert"
        /\ args'.index <= Len(backing)
        /\ args'.index \div row_width < back_row(Self))
          => LET row == args'.index \div row_width
                 col == args'.index % row_width
                 first == row * row_width
                 split == splits[row + 1]
                 before == wrap_add(row_width, split, -1)
                 after == wrap_add(row_width, split, col)
             IN /\ status' = "ok"
                /\ \A c \in 0..(row_width - 1) :
                      get(Self', first + c) =
                         IF c < col THEN get(Self, first + c)
                         ELSE IF c = col THEN <<args'.value>>
                         ELSE get(Self, first + c - 1)
                /\ splits'[row + 1] =
                      (IF before <= after THEN wrap_add(row_width, split, -1) ELSE split)
                /\ get(Self', first + row_width) = get(Self, first + row_width - 1)]_vars

Count(s, v) == Cardinality({i \in 1..Len(s) : s[i] = v})

\* C37: no element is lost or duplicated.  Step by step: every push_front,
\* push_back and in-range insert adds exactly its value to the multiset of
\* elements in the backing buffer, every pop and remove takes exactly the
\* value it returns out of it, and nothing else changes the multiset; so the
\* buffer and the returned values together always hold what was put in, and
\* len is the number of insertions minus the number of successful removals.
C37_ElementsConserved ==
    [][(/\ status = "ok"
        /\ op' \in {"push_front", "push_back", "insert", "pop_front", "pop_back", "remove"})
          => LET added == IF \/ op' \in {"push_front", "push_back"}
                             \/ op' = "insert" /\ args'.index <= Len(backing)
                          THEN <<args'.value>> ELSE <<>>
             IN /\ \A v \in Vals :
                      Count(backing', v) + Count(ret', v) = Count(backing, v) + Count(added, v)
                /\ Len(backing') + Len(ret') = Len(backing) + Len(added)]_vars

\* C38: in every reachable state, push_front(v) immediately followed by
\* pop_front returns v and restores the backing buffer and every split marker
\* to their values before the push; likewise push_back(v) followed by pop_back.
C38_PushThenPopRestores ==
    status = "ok" =>
       \A v \in Vals :
          LET pushed_front == push_front(Self, v)
              popped_front == pop_front(pushed_front)
              pushed_back == push_back(Self, v)
              popped_back == pop_back(pushed_back)
          IN /\ pushed_front.status = "ok" /\ popped_front.self.status = "ok"
             /\ popped_front.ret = <<v>>
             /\ popped_front.self.backing = backing /\ popped_front.self.splits = splits
             /\ pushed_back.status = "ok" /\ popped_back.self.status = "ok"
             /\ popped_back.ret = <<v>>
             /\ popped_back.self.backing = backing /\ popped_back.self.splits = splits

====
